---- MODULE Spec2Model ----
(***************************************************************************)
(* A model of drasl's browser front end (front.go) and of its signing-key  *)
(* start-up (config.go).                                                    *)
(*                                                                         *)
(* The account table, the skin and cape blob stores and the key file are   *)
(* the shared state.  Every HTTP handler is a small process: one action    *)
(* per access to shared state, with the handler's local computation that   *)
(* follows the access folded into the same action.  Random values          *)
(* (uuid.New, RandomHex) are modelled as fresh values taken from counters; *)
(* the password salt is drawn from a small set.                            *)
(***************************************************************************)
EXTENDS Integers, Sequences, FiniteSets, TLC

VARIABLES
    config,     \* the loaded Config (read-only after start-up)
    db,         \* the users table: a set of User records
    skins,      \* hashes of the skin blobs present in the asset store
    capes,      \* hashes of the cape blobs present in the asset store
    req,        \* per request slot: the echo.Context and the handler's locals
    resp,       \* the response the latest step sent out, if it sent one
    nextUUID,   \* the next value uuid.New() returns
    nextToken,  \* the next value RandomHex(32) returns
    updates,    \* number of authenticated POST /update requests so far
    issued,     \* history: <<token, uuid>> for every session token sent to a client
    keyFile,    \* content of <StateDirectory>/key.pkcs8
    proc,       \* the server process: "down", "up" or "aborted"
    key,        \* the key ReadOrCreateKey returned to the running process
    nextKey,    \* the next key rsa.GenerateKey returns
    starts      \* number of process starts so far

vars == <<config, db, skins, capes, req, resp, nextUUID, nextToken, updates, issued,
          keyFile, proc, key, nextKey, starts>>

accountVars == <<config, db, skins, capes, req, resp, nextUUID, nextToken, updates, issued>>
keyVars == <<keyFile, proc, key, nextKey, starts>>

----------------------------------------------------------------------------
(* Bounds of the model *)

MaxUsers == 2       \* uuid.New() is called for at most this many registrations
MaxTokens == 3      \* RandomHex(32) issues at most this many session tokens
MaxUpdates == 1     \* POST /update requests that authenticate
MaxRaceUsers == 2   \* the same three, for requests served concurrently
MaxRaceTokens == 2
MaxRaceUpdates == 1
MaxSharedUsers == 2
MaxSharedTokens == 2
MaxSharedUpdates == 2
MaxStarts == 6      \* process starts on one state directory
MaxKeys == 4        \* keys rsa.GenerateKey can produce

Procs == {"p1", "p2"}       \* concurrently served requests
SeqProcs == {"p1"}          \* requests served one at a time

\* Form values: "" is a blank field, "pw" is shorter than MinPasswordLength,
\* "xx" is no language, "wide" no skin model.
Usernames == {"", "alice", "bob"}
Passwords == {"", "pw", "secret1"}
RegisterPasswords == {"", "secret1"}
PlayerNames == {"", "alice", "bob"}
Languages == {"en", "xx"}
SkinModels == {"classic", "slim", "wide"}
Salts == {1}
MinPasswordLengths == {3}    \* config: MinPasswordLength

----------------------------------------------------------------------------
(* Values *)

\* sql.NullString; String is 0 (the empty string) when Valid is FALSE.
MakeNullString(s) == [Valid |-> TRUE, String |-> s]
NullStringNil == [Valid |-> FALSE, String |-> 0]

NoCookie == -1      \* the request carries no browserToken cookie
EmptyValue == 0     \* the empty cookie value ""

SkinModelClassic == "classic"

\* var user User: the zero value
NoUser ==
    [UUID |-> 0, Username |-> "", PasswordSalt |-> 0, PasswordHash |-> <<>>,
     PlayerName |-> "", PreferredLanguage |-> "", SkinModel |-> "",
     SkinHash |-> NullStringNil, CapeHash |-> NullStringNil,
     BrowserToken |-> NullStringNil]

\* HashPassword(password, salt): deterministic, and injective in both arguments.
HashPassword(password, salt) == <<password, salt>>

\* IsValidPassword: non-empty and at least the configured minimum length.
IsValidPassword(password) ==
    password /= "" /\ Len(password) >= config.MinPasswordLength

\* IsValidPlayerName: between 1 and 16 characters (inclusive).
IsValidPlayerName(playerName) ==
    Len(playerName) >= 1 /\ Len(playerName) <= 16

IsValidPreferredLanguage(preferredLanguage) == preferredLanguage \in {"en", "es"}

IsValidSkinModel(skinModel) == skinModel \in {"classic", "slim"}

----------------------------------------------------------------------------
(* The storage collaborator (gorm over the users table) *)

ErrNil == "nil"
ErrUnique == "UNIQUE constraint failed"
ErrRecordNotFound == "record not found"
ErrIO == "io error"

\* The uniqueness constraints of the users table, checked against the rows
\* other than the one with the record's primary key.
UniqueFailed(user) ==
    \E u \in db :
        /\ u.UUID /= user.UUID
        /\ \/ u.Username = user.Username
           \/ u.PlayerName = user.PlayerName
           \/ (user.BrowserToken.Valid /\ u.BrowserToken = user.BrowserToken)

\* app.DB.First(&user, "browser_token = ?", value): NULL never matches.
FirstByBrowserToken(value) ==
    {u \in db : u.BrowserToken.Valid /\ u.BrowserToken.String = value}

\* app.DB.First(&user, "username = ?", username)
FirstByUsername(username) == {u \in db : u.Username = username}

\* app.DB.Create(&user): the error, and the table afterwards.
DBCreateError(user) ==
    IF (\E u \in db : u.UUID = user.UUID) \/ UniqueFailed(user)
    THEN ErrUnique ELSE ErrNil

\* A faulty table: rows are inserted without any constraint.
DBCreate_Unconstrained(user) == db \cup {user}

DBCreate(user) == IF DBCreateError(user) = ErrNil THEN db \cup {user} ELSE db

\* app.DB.Save(&user): writes every field of the row with the record's primary
\* key, and inserts the row when there is none.
DBSaveError(user) == IF UniqueFailed(user) THEN ErrUnique ELSE ErrNil

\* A faulty table: rows are written without any constraint.
DBSave_Unconstrained(user) == {u \in db : u.UUID /= user.UUID} \cup {user}

DBSave(user) ==
    IF DBSaveError(user) = ErrNil
    THEN {u \in db : u.UUID /= user.UUID} \cup {user}
    ELSE db

\* app.DB.Delete(&user): removes the row with the record's primary key.
DBDelete(user) == {u \in db : u.UUID /= user.UUID}

\* IsErrorUniqueFailed(err): whether err is a uniqueness violation; a nil
\* error is none.
IsErrorUniqueFailed(err) == err = ErrUnique

----------------------------------------------------------------------------
(* The echo.Context of a request slot *)

StatusNone == "none"                \* the handler has not returned yet
StatusSeeOther == "303"             \* c.Redirect(http.StatusSeeOther, ...)
StatusBadRequest == "400"           \* c.String / c.NoContent(StatusBadRequest)
StatusError == "error"              \* the handler returned a non-nil error
StatusNil == "nil"                  \* the handler returned nil, no response written

IdleReq ==
    [op |-> "none", pc |-> "idle", cookie |-> NoCookie, user |-> NoUser,
     oldSkinHash |-> NullStringNil, oldCapeHash |-> NullStringNil,
     status |-> StatusNone, errorMessage |-> "", setCookie |-> NoCookie]

\* A new request: the handler op, nothing answered yet.
NewReq(op) == [IdleReq EXCEPT !.op = op, !.pc = "start"]

Idle(p) == req[p].pc = "idle"

\* The handler returns with this status.
Return(r, status) == [r EXCEPT !.pc = "done", !.status = status]

\* setErrorMessage(&c, message)
setErrorMessage(r, message) == [r EXCEPT !.errorMessage = message]

\* c.SetCookie(&http.Cookie{Name: "browserToken", Value: value})
SetBrowserToken(r, value) == [r EXCEPT !.setCookie = value]

\* What the client sees of a returned request (and, of a deletion, the blobs it
\* named).
Response(r) ==
    [op |-> r.op, status |-> r.status, errorMessage |-> r.errorMessage,
     setCookie |-> r.setCookie, oldSkinHash |-> r.oldSkinHash,
     oldCapeHash |-> r.oldCapeHash]

NoResponse == Response(IdleReq)

\* The request in slot p goes on as r; when r has returned, its response goes
\* out and the slot is free again.  resp is what the latest step sent out.
Continue(p, r) ==
    IF r.pc = "done"
    THEN /\ req' = [req EXCEPT ![p] = IdleReq]
         /\ resp' = Response(r)
    ELSE /\ req' = [req EXCEPT ![p] = r]
         /\ resp' = NoResponse

\* The row a First query returns: the one with the least primary key.
First(rows) == CHOOSE u \in rows : \A v \in rows : u.UUID <= v.UUID

\* The counters stay within the bounds of in after the step.
Bounded(in) ==
    /\ nextUUID' <= in.maxUsers + 1
    /\ nextToken' <= in.maxTokens + 1
    /\ updates' <= in.maxUpdates

----------------------------------------------------------------------------
(* POST /register *)

\* A faulty FrontRegister: the record is built without the session token.
RegisterUser_NoSession(uuid, username, password, passwordSalt, browserToken) ==
    [UUID |-> uuid,
     Username |-> username,
     PasswordSalt |-> passwordSalt,
     PasswordHash |-> HashPassword(password, passwordSalt),
     PlayerName |-> username,
     PreferredLanguage |-> "en",
     SkinModel |-> SkinModelClassic,
     SkinHash |-> NullStringNil,
     CapeHash |-> NullStringNil,
     BrowserToken |-> NullStringNil]

\* The User that FrontRegister constructs.
RegisterUser(uuid, username, password, passwordSalt, browserToken) ==
    [UUID |-> uuid,
     Username |-> username,
     PasswordSalt |-> passwordSalt,
     PasswordHash |-> HashPassword(password, passwordSalt),
     PlayerName |-> username,
     PreferredLanguage |-> "en",
     SkinModel |-> SkinModelClassic,
     SkinHash |-> NullStringNil,
     CapeHash |-> NullStringNil,
     BrowserToken |-> MakeNullString(browserToken)]

\* The error FrontRegister hands to IsErrorUniqueFailed after a failed Create:
\* err, which still holds RandomHex's nil, and not result.Error.
RegisterClassifiedError(err, resultError) == err

\* The form is read and checked, and the record is constructed.
RegisterStartWith(p, username, password, passwordSalt) ==
    /\ Idle(p)
    /\ LET r == NewReq("register") IN
       IF username = "" \/ password = ""
       THEN /\ Continue(p, Return(r, StatusBadRequest))
            /\ UNCHANGED <<nextUUID, nextToken>>
       ELSE /\ Continue(p, [r EXCEPT !.pc = "create",
                             !.user = RegisterUser(nextUUID, username, password,
                                                   passwordSalt, nextToken)])
            /\ nextUUID' = nextUUID + 1
            /\ nextToken' = nextToken + 1
    /\ UNCHANGED <<config, db, skins, capes, updates, issued, keyVars>>

RegisterStart(p, in) ==
    \E username \in in.usernames, password \in in.registerPasswords,
       passwordSalt \in Salts :
        RegisterStartWith(p, username, password, passwordSalt) /\ Bounded(in)

\* What FrontRegister answers once app.DB.Create has returned resultError.
RegisterResponse(r, resultError) ==
    IF resultError /= ErrNil
    THEN IF IsErrorUniqueFailed(RegisterClassifiedError(ErrNil, resultError))
         THEN Return(setErrorMessage(r, "That username is taken."), StatusSeeOther)
         ELSE Return(r, StatusError)
    ELSE Return(SetBrowserToken(r, r.user.BrowserToken.String), StatusSeeOther)

\* app.DB.Create(&user) and the response.
RegisterCreate(p) ==
    /\ req[p].op = "register" /\ req[p].pc = "create"
    /\ LET user == req[p].user
           resultError == DBCreateError(user)
       IN /\ db' = DBCreate(user)
          /\ Continue(p, RegisterResponse(req[p], resultError))
          /\ issued' = IF resultError = ErrNil
                       THEN issued \cup {<<user.BrowserToken.String, user.UUID>>}
                       ELSE issued
    /\ UNCHANGED <<config, skins, capes, nextUUID, nextToken, updates, keyVars>>

----------------------------------------------------------------------------
(* POST /login *)

\* A faulty comparison: every password is accepted.
PasswordMatches_Any(user, password) == TRUE

\* bytes.Equal(passwordHash, user.PasswordHash) for the submitted password
PasswordMatches(user, password) ==
    HashPassword(password, user.PasswordSalt) = user.PasswordHash

\* A faulty FrontLogin: the new token is not assigned to the record.
LoginUser_Unassigned(user, browserToken) == user

\* user.BrowserToken = MakeNullString(&browserToken)
LoginUser(user, browserToken) ==
    [user EXCEPT !.BrowserToken = MakeNullString(browserToken)]

\* The lookup by username, the password check, and the new session cookie.
LoginStartWith(p, username, password) ==
    /\ Idle(p)
    /\ LET r == NewReq("login")
           rows == FirstByUsername(username)
       IN IF rows = {}
          THEN /\ Continue(p, Return(setErrorMessage(r, "User not found!"), StatusSeeOther))
               /\ UNCHANGED <<nextToken, issued>>
          ELSE IF ~PasswordMatches(First(rows), password)
          THEN /\ Continue(p, Return(setErrorMessage(r, "Incorrect password!"), StatusSeeOther))
               /\ UNCHANGED <<nextToken, issued>>
          ELSE /\ Continue(p, [SetBrowserToken(r, nextToken) EXCEPT
                          !.pc = "save",
                          !.user = LoginUser(First(rows), nextToken)])
               /\ nextToken' = nextToken + 1
               /\ issued' = issued \cup {<<nextToken, First(rows).UUID>>}
    /\ UNCHANGED <<config, db, skins, capes, nextUUID, updates, keyVars>>

LoginStart(p, in) ==
    \E username \in in.usernames, password \in in.passwords :
        LoginStartWith(p, username, password) /\ Bounded(in)

\* app.DB.Save(&user), its error ignored, and the redirect.
LoginSave(p) ==
    /\ req[p].op = "login" /\ req[p].pc = "save"
    /\ db' = DBSave(req[p].user)
    /\ Continue(p, Return(req[p], StatusSeeOther))
    /\ UNCHANGED <<config, skins, capes, nextUUID, nextToken, updates, issued, keyVars>>

----------------------------------------------------------------------------
(* withBrowserAuthentication *)

Cookies == {NoCookie, EmptyValue} \cup (1..MaxTokens)

\* A faulty query: no condition on browser_token.
AuthRows_Any(value) == db

\* The rows withBrowserAuthentication's query selects for the cookie value.
AuthRows(value) == FirstByBrowserToken(value)

\* The request after withBrowserAuthentication: answered with a redirect, or
\* at "authed" with the user loaded, where the wrapped handler f begins.
withBrowserAuthentication(op, cookie) ==
    LET r == NewReq(op) IN
    IF cookie = NoCookie \/ cookie = EmptyValue
    THEN Return(r, StatusSeeOther)
    ELSE IF AuthRows(cookie) = {}
    THEN Return(SetBrowserToken(r, EmptyValue), StatusSeeOther)
    ELSE [r EXCEPT !.pc = "authed", !.cookie = cookie,
                   !.user = First(AuthRows(cookie))]

----------------------------------------------------------------------------
(* POST /logout *)

\* A faulty FrontLogout: the token is left on the record.
LogoutUser_Keep(user) == user

\* user.BrowserToken = MakeNullString(nil)
LogoutUser(user) == [user EXCEPT !.BrowserToken = NullStringNil]

\* The handler up to app.DB.Save.
LogoutBody(r) ==
    [SetBrowserToken(r, EmptyValue) EXCEPT !.pc = "save", !.user = LogoutUser(r.user)]

LogoutStartWith(p, cookie) ==
    /\ Idle(p)
    /\ LET r == withBrowserAuthentication("logout", cookie) IN
       Continue(p, IF r.pc = "authed" THEN LogoutBody(r) ELSE r)
    /\ UNCHANGED <<config, db, skins, capes, nextUUID, nextToken, updates, issued, keyVars>>

LogoutStart(p, in) == \E cookie \in in.cookies : LogoutStartWith(p, cookie)

\* app.DB.Save(user), its error ignored, and the redirect.
LogoutSave(p) ==
    /\ req[p].op = "logout" /\ req[p].pc = "save"
    /\ db' = DBSave(req[p].user)
    /\ Continue(p, Return(req[p], StatusSeeOther))
    /\ UNCHANGED <<config, skins, capes, nextUUID, nextToken, updates, issued, keyVars>>

----------------------------------------------------------------------------
(* POST /delete-account *)

\* A faulty FrontDeleteAccount: the skin blob is not deleted.
DeleteNext_SkipSkin(r, from) ==
    IF r.oldCapeHash.Valid /\ from = "row" THEN [r EXCEPT !.pc = "delcape"]
    ELSE Return(r, StatusSeeOther)

\* Where FrontDeleteAccount goes on after the row is deleted (from "row"),
\* or after the skin blob is deleted (from "delskin").
DeleteNext(r, from) ==
    IF from = "row" /\ r.oldSkinHash.Valid THEN [r EXCEPT !.pc = "delskin"]
    ELSE IF r.oldCapeHash.Valid THEN [r EXCEPT !.pc = "delcape"]
    ELSE Return(r, StatusSeeOther)

\* The handler up to app.DB.Delete.
DeleteBody(r) ==
    [SetBrowserToken(r, EmptyValue) EXCEPT
        !.pc = "row",
        !.oldSkinHash = r.user.SkinHash,
        !.oldCapeHash = r.user.CapeHash]

DeleteStartWith(p, cookie) ==
    /\ Idle(p)
    /\ LET r == withBrowserAuthentication("delete", cookie) IN
       Continue(p, IF r.pc = "authed" THEN DeleteBody(r) ELSE r)
    /\ UNCHANGED <<config, db, skins, capes, nextUUID, nextToken, updates, issued, keyVars>>

DeleteStart(p, in) == \E cookie \in in.cookies : DeleteStartWith(p, cookie)

\* app.DB.Delete(&user)
DeleteRow(p) ==
    /\ req[p].op = "delete" /\ req[p].pc = "row"
    /\ db' = DBDelete(req[p].user)
    /\ Continue(p, DeleteNext(req[p], "row"))
    /\ UNCHANGED <<config, skins, capes, nextUUID, nextToken, updates, issued, keyVars>>

\* DeleteSkin / DeleteCape: the store without the blob keyed by hash.
DeleteBlob(store, hash) == store \ {hash}

\* A faulty FrontDeleteAccount: a skin blob that another account names is kept.
DeleteSkinWith_Checked(p, err) ==
    /\ req[p].op = "delete" /\ req[p].pc = "delskin"
    /\ IF err
       THEN /\ Continue(p, Return(req[p], StatusError))
            /\ UNCHANGED skins
       ELSE /\ Continue(p, DeleteNext(req[p], "delskin"))
            /\ skins' = IF \E u \in db : u.SkinHash = req[p].oldSkinHash
                        THEN skins
                        ELSE DeleteBlob(skins, req[p].oldSkinHash.String)
    /\ UNCHANGED <<config, db, capes, nextUUID, nextToken, updates, issued, keyVars>>

\* DeleteSkin(app, *oldSkinHash); err is whether removing the blob failed.
DeleteSkinWith(p, err) ==
    /\ req[p].op = "delete" /\ req[p].pc = "delskin"
    /\ IF err
       THEN /\ Continue(p, Return(req[p], StatusError))
            /\ UNCHANGED skins
       ELSE /\ Continue(p, DeleteNext(req[p], "delskin"))
            /\ skins' = DeleteBlob(skins, req[p].oldSkinHash.String)
    /\ UNCHANGED <<config, db, capes, nextUUID, nextToken, updates, issued, keyVars>>

DeleteSkinStep(p) == \E err \in BOOLEAN : DeleteSkinWith(p, err)

\* DeleteCape(app, *oldCapeHash)
DeleteCapeWith(p, err) ==
    /\ req[p].op = "delete" /\ req[p].pc = "delcape"
    /\ IF err
       THEN /\ Continue(p, Return(req[p], StatusError))
            /\ UNCHANGED capes
       ELSE /\ Continue(p, Return(req[p], StatusSeeOther))
            /\ capes' = DeleteBlob(capes, req[p].oldCapeHash.String)
    /\ UNCHANGED <<config, db, skins, nextUUID, nextToken, updates, issued, keyVars>>

DeleteCapeStep(p) == \E err \in BOOLEAN : DeleteCapeWith(p, err)

----------------------------------------------------------------------------
(* The asset pipeline, as FrontUpdate uses it *)

SkinSizeLimit == 128

\* Byte streams a client uploads or a remote server answers with.
GoodImage == [decodes |-> TRUE, size |-> 64, pixels |-> 1]
BigImage == [decodes |-> TRUE, size |-> 256, pixels |-> 2]
NotAnImage == [decodes |-> FALSE, size |-> 0, pixels |-> 0]
ImageBytes == {GoodImage, BigImage, NotAnImage}

NoFile == [decodes |-> FALSE, size |-> -1, pixels |-> 0]    \* no such form file

\* http.Get(url): err is set only when no response arrived; a non-2xx answer
\* is a response like any other, its body an error page.
FetchResults ==
    {[err |-> TRUE, status |-> 0, body |-> NotAnImage],
     [err |-> FALSE, status |-> 404, body |-> NotAnImage]}
    \cup {[err |-> FALSE, status |-> 200, body |-> b] : b \in ImageBytes}

URLs == {"", "https://example.com/texture.png"}

\* ValidateSkin / ValidateCape: the stream decodes as an image within the size limit.
ValidateTexture(bytes) == bytes.decodes /\ bytes.size <= SkinSizeLimit

\* The content hash of the validated bytes: one hash per image.
TextureHash(bytes) == bytes.pixels

\* SetSkin / SetCape on the in-memory record.
SetTexture(kind, user, hash) ==
    IF kind = "skin"
    THEN [user EXCEPT !.SkinHash = MakeNullString(hash)]
    ELSE [user EXCEPT !.CapeHash = MakeNullString(hash)]

\* What FrontUpdate answers when SetSkin / SetCape fails: the error for an
\* uploaded file, nil for a downloaded one.
SetTextureFailed(r, source) ==
    IF source = "file" THEN Return(r, StatusError) ELSE Return(r, StatusNil)

\* The skin (or cape) part of FrontUpdate.  file is the form file or NoFile,
\* url the form's URL, fetch what http.Get(url) gives, storeErr whether
\* SetSkin (SetCape) fails.  The result: the request afterwards, and whether the
\* blob was written.
UpdateTexture(kind, r, file, url, fetch, storeErr) ==
    LET source == IF file /= NoFile THEN "file" ELSE IF url /= "" THEN "url" ELSE "none"
        bytes == IF source = "file" THEN file ELSE fetch.body
        next == IF kind = "skin" THEN "cape" ELSE "save"
    IN
    IF source = "none"
    THEN [r |-> [r EXCEPT !.pc = next], stored |-> FALSE]
    ELSE IF source = "url" /\ fetch.err
    THEN [r |-> Return(setErrorMessage(r,
                    IF kind = "skin" THEN "Couldn't download skin from that URL."
                                     ELSE "Couldn't download cape from that URL."),
                    StatusSeeOther),
          stored |-> FALSE]
    ELSE IF ~ValidateTexture(bytes)
    THEN [r |-> Return(setErrorMessage(r,
                    IF kind = "skin" THEN "Error using that skin"
                                     ELSE "Error using that cape"),
                    StatusSeeOther),
          stored |-> FALSE]
    ELSE IF storeErr
    THEN [r |-> SetTextureFailed(r, source), stored |-> FALSE]
    ELSE [r |-> [r EXCEPT !.pc = next,
                          !.user = SetTexture(kind, r.user, TextureHash(bytes))],
          stored |-> TRUE]

\* The texture inputs to try: a form file, with the URL (which the handler
\* then does not read) left empty; or no file and no URL; or a URL, with each
\* answer of the remote server.
TextureInputs ==
    {[file |-> f, url |-> "", fetch |-> [err |-> TRUE, status |-> 0, body |-> NotAnImage],
      storeErr |-> e] : f \in ImageBytes, e \in BOOLEAN}
    \cup {[file |-> NoFile, url |-> "",
            fetch |-> [err |-> TRUE, status |-> 0, body |-> NotAnImage],
            storeErr |-> FALSE]}
    \cup {[file |-> NoFile, url |-> "https://example.com/texture.png", fetch |-> f,
            storeErr |-> e] : f \in FetchResults, e \in BOOLEAN}

----------------------------------------------------------------------------
(* POST /update *)

\* The password part of FrontUpdate: an invalid password sets the error
\* message, and the handler goes on to hash and assign it.
UpdatePassword(r, password, passwordSalt) ==
    IF password /= ""
    THEN LET r1 == IF ~IsValidPassword(password)
                   THEN setErrorMessage(r, "Invalid password.")
                   ELSE r
         IN [r1 EXCEPT !.user.PasswordSalt = passwordSalt,
                       !.user.PasswordHash = HashPassword(password, passwordSalt)]
    ELSE r

\* The form fields of FrontUpdate, checked and assigned in the handler's order.
UpdateFields(r, playerName, preferredLanguage, password, skinModel, passwordSalt) ==
    IF ~IsValidPlayerName(playerName)
    THEN Return(setErrorMessage(r,
             "Player name must be between 1 and 16 characters (inclusive)."),
             StatusSeeOther)
    ELSE LET r1 == [r EXCEPT !.user.PlayerName = playerName] IN
    IF ~IsValidPreferredLanguage(preferredLanguage)
    THEN Return(setErrorMessage(r1, "Invalid preferred language."), StatusSeeOther)
    ELSE LET r2 == [r1 EXCEPT !.user.PreferredLanguage = preferredLanguage]
             r3 == UpdatePassword(r2, password, passwordSalt)
         IN
    IF ~IsValidSkinModel(skinModel)
    THEN Return(r3, StatusBadRequest)
    ELSE [r3 EXCEPT !.user.SkinModel = skinModel, !.pc = "skin"]

UpdateStartWith(p, cookie, playerName, preferredLanguage, password, skinModel, passwordSalt) ==
    /\ Idle(p)
    /\ LET r == withBrowserAuthentication("update", cookie) IN
       IF r.pc = "authed"
       THEN /\ updates' = updates + 1
            /\ Continue(p, UpdateFields(r, playerName, preferredLanguage, password,
                                skinModel, passwordSalt))
       ELSE /\ Continue(p, r)
            /\ UNCHANGED updates
    /\ UNCHANGED <<config, db, skins, capes, nextUUID, nextToken, issued, keyVars>>

\* The requests to try: the handler reads the form only once the cookie has
\* authenticated, so one form stands for all when it has not.
UpdateStart(p, in) ==
    \E cookie \in in.cookies :
        IF AuthRows(cookie) = {}
        THEN UpdateStartWith(p, cookie, "", "", "", "", 1) /\ Bounded(in)
        ELSE \E playerName \in in.playerNames, preferredLanguage \in in.languages,
                password \in in.updatePasswords, skinModel \in in.skinModels,
                passwordSalt \in Salts :
                 /\ UpdateStartWith(p, cookie, playerName, preferredLanguage,
                                    password, skinModel, passwordSalt)
                 /\ Bounded(in)

UpdateSkinWith(p, file, url, fetch, storeErr) ==
    /\ req[p].op = "update" /\ req[p].pc = "skin"
    /\ LET res == UpdateTexture("skin", req[p], file, url, fetch, storeErr) IN
       /\ Continue(p, res.r)
       /\ skins' = IF res.stored
                   THEN skins \cup {res.r.user.SkinHash.String}
                   ELSE skins
    /\ UNCHANGED <<config, db, capes, nextUUID, nextToken, updates, issued, keyVars>>

UpdateSkin(p, in) ==
    \E i \in in.textures :
        UpdateSkinWith(p, i.file, i.url, i.fetch, i.storeErr)

UpdateCapeWith(p, file, url, fetch, storeErr) ==
    /\ req[p].op = "update" /\ req[p].pc = "cape"
    /\ LET res == UpdateTexture("cape", req[p], file, url, fetch, storeErr) IN
       /\ Continue(p, res.r)
       /\ capes' = IF res.stored
                   THEN capes \cup {res.r.user.CapeHash.String}
                   ELSE capes
    /\ UNCHANGED <<config, db, skins, nextUUID, nextToken, updates, issued, keyVars>>

UpdateCape(p, in) ==
    \E i \in in.textures :
        UpdateCapeWith(p, i.file, i.url, i.fetch, i.storeErr)

\* What FrontUpdate answers once app.DB.Save has returned err.
UpdateResponse(r, err) ==
    IF err /= ErrNil /\ IsErrorUniqueFailed(err)
    THEN Return(setErrorMessage(r, "That player name is taken."), StatusSeeOther)
    ELSE IF err /= ErrNil THEN Return(r, StatusError)
    ELSE Return(r, StatusSeeOther)

\* app.DB.Save(&user) and the response.
UpdateSave(p) ==
    /\ req[p].op = "update" /\ req[p].pc = "save"
    /\ db' = DBSave(req[p].user)
    /\ Continue(p, UpdateResponse(req[p], DBSaveError(req[p].user)))
    /\ UNCHANGED <<config, skins, capes, nextUUID, nextToken, updates, issued, keyVars>>

----------------------------------------------------------------------------
(* The signing key: ReadOrCreateKey and KeyB3Sum512 *)

NoKey == 0
NoKeyFile == [format |-> "absent", key |-> NoKey]
Truncated == [format |-> "truncated", key |-> NoKey]

\* x509.MarshalPKCS8PrivateKey(key): the DER encoding of the key.
MarshalPKCS8PrivateKey(k) == [format |-> "PKCS8", key |-> k]

\* x509.ParsePKCS8PrivateKey(der): the key, or NoKey when der does not decode.
ParsePKCS8PrivateKey(der) == IF der.format = "PKCS8" THEN der.key ELSE NoKey

\* blake3.Sum512 of the key's encoding.
KeyB3Sum512(k) == [b3sum512 |-> MarshalPKCS8PrivateKey(k)]

\* Whether os.ReadFile(path) fails: always when there is no file, and when the
\* environment makes the read of a present file fail (readFails).
ReadFileError(readFails) == keyFile = NoKeyFile \/ readFails

\* A process start.  readFails: the read of a present key file fails;
\* generateFails: rsa.GenerateKey fails; write: how os.WriteFile ends ("ok",
\* "open": the file could not be opened, "write": it was truncated and the
\* write failed).
ReadOrCreateKeyWith(readFails, generateFails, write) ==
    /\ proc /= "up"
    /\ starts < MaxStarts
    /\ starts' = starts + 1
    /\ IF ~ReadFileError(readFails)
       THEN /\ IF ParsePKCS8PrivateKey(keyFile) = NoKey
               THEN proc' = "aborted" /\ key' = NoKey
               ELSE proc' = "up" /\ key' = ParsePKCS8PrivateKey(keyFile)
            /\ UNCHANGED <<keyFile, nextKey>>
       ELSE IF generateFails
       THEN /\ proc' = "aborted" /\ key' = NoKey
            /\ UNCHANGED <<keyFile, nextKey>>
       ELSE /\ nextKey <= MaxKeys
            /\ nextKey' = nextKey + 1
            /\ IF write = "ok"
               THEN /\ keyFile' = MarshalPKCS8PrivateKey(nextKey)
                    /\ proc' = "up" /\ key' = nextKey
               ELSE /\ keyFile' = IF write = "write" THEN Truncated ELSE keyFile
                    /\ proc' = "aborted" /\ key' = NoKey
    /\ UNCHANGED accountVars

ReadOrCreateKey ==
    \E readFails \in BOOLEAN, generateFails \in BOOLEAN,
       write \in {"ok", "open", "write"} :
        ReadOrCreateKeyWith(readFails, generateFails, write)

\* The process exits.
Exit ==
    /\ proc = "up"
    /\ proc' = "down" /\ key' = NoKey
    /\ UNCHANGED <<keyFile, nextKey, starts>>
    /\ UNCHANGED accountVars

----------------------------------------------------------------------------
(* Specifications *)

\* The configuration file: a minimum password length above the default, and
\* registration of new players allowed (Init) or not (InitClosed).
Configs(allow) ==
    [MinPasswordLength : MinPasswordLengths, RegistrationNewPlayerAllow : {allow}]

InitWith(allow) ==
    /\ config \in Configs(allow)
    /\ db = {}
    /\ skins = {}
    /\ capes = {}
    /\ req = [p \in Procs |-> IdleReq]
    /\ resp = NoResponse
    /\ nextUUID = 1
    /\ nextToken = 1
    /\ updates = 0
    /\ issued = {}
    /\ keyFile \in {NoKeyFile, Truncated}
    /\ proc = "down"
    /\ key = NoKey
    /\ nextKey = 1
    /\ starts = 0

Init == InitWith(TRUE)

InitClosed == InitWith(FALSE)

\* The inputs requests are drawn from when they are served one at a time.
AllInputs ==
    [usernames |-> Usernames,
     registerPasswords |-> RegisterPasswords,
     passwords |-> Passwords,
     cookies |-> Cookies,
     playerNames |-> PlayerNames,
     languages |-> Languages,
     updatePasswords |-> Passwords,
     skinModels |-> SkinModels,
     textures |-> TextureInputs,
     maxUsers |-> MaxUsers, maxTokens |-> MaxTokens, maxUpdates |-> MaxUpdates]

\* The inputs of concurrently served requests: well-formed forms, uploads that
\* validate and are stored, and no change of password.
ValidInputs ==
    [usernames |-> {"alice", "bob"},
     registerPasswords |-> {"secret1"},
     passwords |-> {"secret1", "pw"},
     cookies |-> Cookies,
     playerNames |-> {"alice", "bob"},
     languages |-> {"en"},
     updatePasswords |-> {""},
     skinModels |-> {"classic"},
     textures |-> {i \in TextureInputs :
                     i.url = "" /\ ~i.storeErr /\ i.file \in {NoFile, GoodImage}},
     maxUsers |-> MaxRaceUsers, maxTokens |-> MaxRaceTokens,
     maxUpdates |-> MaxRaceUpdates]

\* One step of the request in slot p, its inputs drawn from in.
Step(p, in) ==
    \/ RegisterStart(p, in)
    \/ RegisterCreate(p)
    \/ LoginStart(p, in)
    \/ LoginSave(p)
    \/ UpdateStart(p, in)
    \/ UpdateSkin(p, in)
    \/ UpdateCape(p, in)
    \/ UpdateSave(p)
    \/ LogoutStart(p, in)
    \/ LogoutSave(p)
    \/ DeleteStart(p, in)
    \/ DeleteRow(p)
    \/ DeleteSkinStep(p)
    \/ DeleteCapeStep(p)

\* Requests served concurrently.
Next == \E p \in Procs : Step(p, ValidInputs)

Spec == Init /\ [][Next]_vars

\* Requests served one at a time.
NextSeq == \E p \in SeqProcs : Step(p, AllInputs)

SpecSeq == Init /\ [][NextSeq]_vars

\* The same, with the registration of new players disabled in the configuration.
SpecClosed == InitClosed /\ [][NextSeq]_vars

\* The inputs of accounts that come to share a blob: well-formed forms, one
\* image uploaded as skin or cape, and as many Updates as there are accounts.
SharedInputs ==
    [usernames |-> {"alice", "bob"},
     registerPasswords |-> {"secret1"},
     passwords |-> {"secret1"},
     cookies |-> Cookies,
     playerNames |-> {"alice", "bob"},
     languages |-> {"en"},
     updatePasswords |-> {""},
     skinModels |-> {"classic"},
     textures |-> {i \in TextureInputs :
                     i.url = "" /\ ~i.storeErr /\ i.file \in {NoFile, GoodImage}},
     maxUsers |-> MaxSharedUsers, maxTokens |-> MaxSharedTokens,
     maxUpdates |-> MaxSharedUpdates]

\* Requests served one at a time, with two Updates.
NextShared == \E p \in SeqProcs : Step(p, SharedInputs)

SpecShared == Init /\ [][NextShared]_vars

\* Process starts and exits on one state directory.
NextKeys == ReadOrCreateKey \/ Exit

SpecKeys == Init /\ [][NextKeys]_vars

----------------------------------------------------------------------------
(* Properties *)

\* Whether the token resolves to an account in withBrowserAuthentication's query.
ResolvesIn(rows, token) ==
    \E u \in rows : u.BrowserToken.Valid /\ u.BrowserToken.String = token

Resolves(token) == ResolvesIn(db, token)

\* The account a token was issued to.
IssuedTo(token) == CHOOSE id \in 1..MaxUsers : <<token, id>> \in issued

\* Slot p takes the step, and its request returns in it.
Returns(p, op) == req[p].op = op /\ req[p].pc /= "idle" /\ req'[p].pc = "idle"

\* C1: served one at a time, a successful Login leaves the new token stored on
\* the account, and no token issued to that account before resolves any more.
C1_LoginInvalidatesPriorTokens ==
    (resp.op = "login" /\ resp.setCookie /= NoCookie) =>
        LET new == resp.setCookie
            id == IssuedTo(new)
        IN /\ \E u \in db : u.UUID = id /\ u.BrowserToken = MakeNullString(new)
           /\ \A pair \in issued :
                  (pair[2] = id /\ pair[1] /= new) => ~Resolves(pair[1])

\* A Login has succeeded for an account that holds two earlier tokens, one
\* from Register and one from an earlier Login.
C1_Witness ==
    /\ resp.op = "login" /\ resp.setCookie /= NoCookie
    /\ Cardinality({pair \in issued : pair[2] = IssuedTo(resp.setCookie)}) = 3

\* C2: a Register whose username an existing account has creates nothing,
\* changes nothing, sets no session cookie, and is answered with the conflict
\* message "That username is taken.".
C2_TakenUsernameIsConflict ==
    [][\A p \in Procs :
          (/\ Returns(p, "register")
           /\ \E u \in db : u.Username = req[p].user.Username)
          => /\ db' = db
             /\ resp'.setCookie = NoCookie
             /\ resp'.status = StatusSeeOther
             /\ resp'.errorMessage = "That username is taken."]_vars

\* C3: of two Registers for one username in flight together, the one whose
\* Create comes second (here: the one that started first and was overtaken)
\* creates no account, gets no session cookie and observes the conflict.
C3_RaceLoserObservesConflict ==
    [][\A p \in Procs :
          (/\ Returns(p, "register")
           /\ \E u \in db : /\ u.Username = req[p].user.Username
                            /\ u.UUID > req[p].user.UUID)
          => /\ db' = db
             /\ resp'.setCookie = NoCookie
             /\ resp'.status = StatusSeeOther
             /\ resp'.errorMessage = "That username is taken."]_vars

\* What FrontUpdate reports when a form field fails validation.
ValidationMessages ==
    {"Player name must be between 1 and 16 characters (inclusive).",
     "Invalid preferred language.",
     "Invalid password.",
     "Error using that skin",
     "Error using that cape"}

\* C4: served one at a time, an Update that reported a validation failure
\* (a validation message, or 400 for the skin model) leaves every account
\* record as it was.
C4_InvalidUpdateChangesNothing ==
    [][\A p \in Procs :
          (/\ req'[p].pc = "idle"
           /\ resp'.op = "update"
           /\ \/ resp'.errorMessage \in ValidationMessages
              \/ resp'.status = StatusBadRequest)
          => db' = db]_vars

\* C5: with the registration of new players disabled, no account is created
\* and no session token is issued.
C5_ClosedRegistrationCreatesNothing ==
    ~config.RegistrationNewPlayerAllow => (db = {} /\ issued = {})

\* The responses of FrontLogin that report bad credentials.
AuthErrorMessages == {"User not found!", "Incorrect password!"}

\* Whether the credentials are bad: no account has the username, or the
\* password does not hash, with the stored salt, to the stored hash.
BadCredentials(username, password) ==
    \A u \in db :
        u.Username = username =>
            HashPassword(password, u.PasswordSalt) /= u.PasswordHash

\* C6: a Login with bad credentials is answered with an AuthError and no
\* session cookie, and changes no account: every token resolves as before.
C6_FailedLoginChangesNothing ==
    [][\A p \in Procs, username \in Usernames, password \in Passwords :
          (LoginStartWith(p, username, password)
              /\ BadCredentials(username, password))
          => /\ req'[p] = IdleReq
             /\ resp'.op = "login"
             /\ resp'.status = StatusSeeOther
             /\ resp'.errorMessage \in AuthErrorMessages
             /\ resp'.setCookie = NoCookie
             /\ db' = db
             /\ issued' = issued
             /\ \A t \in 1..MaxTokens : ResolvesIn(db', t) = ResolvesIn(db, t)]_vars

\* A Login with a wrong password was refused while the account's session
\* token still resolves.
C6_Witness ==
    /\ resp.op = "login"
    /\ resp.errorMessage = "Incorrect password!"
    /\ \E u \in db : u.BrowserToken.Valid /\ Resolves(u.BrowserToken.String)

\* A Login that issued no session.
FailedLogin(r) == r.op = "login" /\ r.setCookie = NoCookie

\* C7: two failed Logins on the same accounts, whatever they got wrong, are
\* answered alike.
C7_FailedLoginsAnsweredAlike ==
    [][(FailedLogin(resp) /\ FailedLogin(resp') /\ db' = db) => resp' = resp]_vars

Unauthenticated(cookie) ==
    cookie = NoCookie \/ cookie = EmptyValue \/ ~Resolves(cookie)

\* The request at slot p started with this cookie (whatever the form); a
\* request that goes on carries its cookie.
AuthedStartWith(p, cookie) ==
    \/ LogoutStartWith(p, cookie)
    \/ DeleteStartWith(p, cookie)
    \/ /\ Idle(p)
       /\ resp'.op = "update" \/ req'[p].op = "update"
       /\ req'[p] = IdleReq \/ req'[p].cookie = cookie
       /\ \E playerName \in PlayerNames, preferredLanguage \in Languages,
             password \in Passwords, skinModel \in SkinModels,
             passwordSalt \in Salts :
              UpdateStartWith(p, cookie, playerName, preferredLanguage, password,
                              skinModel, passwordSalt)

\* The request at slot p ended at once with a redirect and changed nothing.
Redirected(p) ==
    /\ req'[p] = IdleReq
    /\ resp'.status = StatusSeeOther
    /\ db' = db /\ skins' = skins /\ capes' = capes

\* C9: an Update, Logout or Delete-account request whose cookie authenticates
\* no account ends at once with a redirect and changes no account and no
\* blob; one that goes on acts as the account whose stored token is the
\* cookie's, and no step of it changes another account's row.
C9_SessionRequired ==
    [][\A p \in Procs :
          /\ \A cookie \in Cookies :
                Unauthenticated(cookie) =>
                    (Redirected(p) \/ ~AuthedStartWith(p, cookie))
          /\ (Idle(p) /\ req'[p].op \in {"update", "logout", "delete"})
                => \E u \in db : /\ u.UUID = req'[p].user.UUID
                                 /\ u.BrowserToken.Valid
                                 /\ u.BrowserToken.String = req'[p].cookie
                                 /\ ~Unauthenticated(req'[p].cookie)
          /\ (req[p].op \in {"update", "logout", "delete"} /\ req'[p] /= req[p])
                => \A u \in db \cup db' :
                       u.UUID /= req[p].user.UUID => (u \in db /\ u \in db')]_vars

\* A Delete-account request without a usable cookie was answered with the
\* redirect while accounts exist.
C9_Witness ==
    /\ resp.op = "delete" /\ resp.status = StatusSeeOther
    /\ resp.setCookie = NoCookie
    /\ db /= {}

\* C10: once the key file holds a key, no process start changes the file or
\* generates a key, and a started process holds the key of the file.
C10_KeyGeneratedOnce ==
    [][ParsePKCS8PrivateKey(keyFile) /= NoKey
          => /\ keyFile' = keyFile
             /\ nextKey' = nextKey
             /\ proc' = "up" =>
                   KeyB3Sum512(key') = KeyB3Sum512(ParsePKCS8PrivateKey(keyFile))]_vars

\* C11: a start that finds a key file it cannot read, or cannot decode, is
\* aborted: it generates no key and leaves the key file as it is.
C11_UnreadableKeyFileIsFatal ==
    [][\A readFails \in BOOLEAN, generateFails \in BOOLEAN,
          write \in {"ok", "open", "write"} :
          (/\ ReadOrCreateKeyWith(readFails, generateFails, write)
           /\ keyFile /= NoKeyFile
           /\ readFails \/ ParsePKCS8PrivateKey(keyFile) = NoKey)
          => /\ proc' = "aborted"
             /\ key' = NoKey
             /\ nextKey' = nextKey
             /\ keyFile' = keyFile]_vars

\* Whether http.Get(url) gave no usable answer: no response, or a status
\* outside 200..299.
FetchFailed(fetch) == fetch.err \/ fetch.status < 200 \/ fetch.status > 299

\* The messages that report a failed download.
FetchErrorMessages ==
    {"Couldn't download skin from that URL.", "Couldn't download cape from that URL."}

\* C12: an Update whose skin or cape URL is unreachable or answers with a
\* non-2xx status ends with the download-failure message of that asset, not
\* with a validation message, and changes no account.
C12_FetchFailureReportedDistinctly ==
    [][\A p \in Procs, fetch \in FetchResults, storeErr \in BOOLEAN :
          (/\ FetchFailed(fetch)
           /\ \/ UpdateSkinWith(p, NoFile, "https://example.com/texture.png",
                                fetch, storeErr)
              \/ UpdateCapeWith(p, NoFile, "https://example.com/texture.png",
                                fetch, storeErr))
          => /\ req'[p] = IdleReq
             /\ resp'.op = "update"
             /\ resp'.status = StatusSeeOther
             /\ resp'.errorMessage \in FetchErrorMessages
             /\ db' = db]_vars

\* C13: in every state, under any interleaving of the requests, no two
\* accounts have the same username, and no two have the same playerName.
C13_UsernameAndPlayerNameUnique ==
    \A u \in db, v \in db :
        u /= v => (u.Username /= v.Username /\ u.PlayerName /= v.PlayerName)

\* A Register was refused by a uniqueness constraint while the only account
\* has the username alice and, after an Update, the playerName bob.
C13_Witness ==
    /\ resp.op = "register" /\ resp.status = StatusError
    /\ db /= {}
    /\ \A u \in db : u.Username = "alice" /\ u.PlayerName = "bob"

\* C14: when an Update reaches its save with a playerName that another
\* account has, it is answered with the conflict message "That player name is
\* taken." and no account record changes.
C14_PlayerNameConflictPersistsNothing ==
    [][\A p \in Procs :
          (/\ UpdateSave(p)
           /\ \E u \in db : /\ u.UUID /= req[p].user.UUID
                            /\ u.PlayerName = req[p].user.PlayerName)
          => /\ db' = db
             /\ req'[p] = IdleReq
             /\ resp'.op = "update"
             /\ resp'.status = StatusSeeOther
             /\ resp'.errorMessage = "That player name is taken."
             /\ resp'.setCookie = NoCookie]_vars

\* An Update that had stored a new skin was refused for its playerName: two
\* accounts exist and neither carries a skin hash.
C14_Witness ==
    /\ resp.op = "update"
    /\ resp.errorMessage = "That player name is taken."
    /\ Cardinality(db) = 2
    /\ skins /= {}
    /\ \A u \in db : ~u.SkinHash.Valid

\* The token is the one a Login in flight has issued and not yet saved.
BeingIssued(token) ==
    \E p \in Procs : /\ req[p].op = "login" /\ req[p].pc = "save"
                     /\ req[p].user.BrowserToken = MakeNullString(token)

Unused(username) ==
    \A u \in db : u.Username /= username /\ u.PlayerName /= username

\* C16: served one at a time, a Register with a non-blank password and a
\* username no account uses builds a record with playerName = username, the
\* classic skin model, no skin or cape, and a session token; its Create adds
\* exactly that record and answers with the redirect and the record's token as
\* the cookie, which then resolves to the new account; and a Login with the
\* username and a password matching an account's stored hash goes on to
\* issue a session and is answered with the redirect and a cookie.
C16_RegisterCreatesActiveAccount ==
    [][\A p \in Procs :
          /\ \A username \in Usernames \ {""}, password \in Passwords \ {""},
                passwordSalt \in Salts :
                RegisterStartWith(p, username, password, passwordSalt) =>
                    /\ req'[p].pc = "create"
                    /\ req'[p].user.Username = username
                    /\ req'[p].user.PlayerName = username
                    /\ req'[p].user.SkinModel = "classic"
                    /\ ~req'[p].user.SkinHash.Valid
                    /\ ~req'[p].user.CapeHash.Valid
                    /\ req'[p].user.BrowserToken.Valid
                    /\ req'[p].user.PasswordHash
                          = HashPassword(password, req'[p].user.PasswordSalt)
          /\ (RegisterCreate(p) /\ Unused(req[p].user.Username)) =>
                /\ req[p].user \notin db
                /\ db' = db \cup {req[p].user}
                /\ resp'.op = "register"
                /\ resp'.status = StatusSeeOther
                /\ resp'.errorMessage = ""
                /\ resp'.setCookie = req[p].user.BrowserToken.String
                /\ {u \in db' : u.BrowserToken.Valid
                                  /\ u.BrowserToken.String = resp'.setCookie}
                      = {req[p].user}
          /\ \A username \in Usernames, password \in Passwords :
                (/\ LoginStartWith(p, username, password)
                 /\ \E u \in db : /\ u.Username = username
                                  /\ u.PasswordHash
                                        = HashPassword(password, u.PasswordSalt))
                => /\ req'[p].pc = "save"
                   /\ req'[p].user.Username = username
                   /\ req'[p].setCookie /= NoCookie
          /\ LoginSave(p) =>
                /\ resp'.status = StatusSeeOther
                /\ resp'.setCookie /= NoCookie]_vars

\* A second account has just been registered: the cookie of the response is
\* the stored token of an account whose playerName is its username.
C16_Witness ==
    /\ resp.op = "register" /\ resp.status = StatusSeeOther
    /\ resp.setCookie /= NoCookie
    /\ Cardinality(db) = 2
    /\ \E u \in db : /\ u.BrowserToken = MakeNullString(resp.setCookie)
                     /\ u.PlayerName = u.Username
                     /\ u.SkinModel = "classic"

\* C17: when the account being deleted names a skin (cape) blob that another
\* account names too, the deletion removes the blob all the same and leaves
\* the other account's record, with the hash, as it is.
C17_SharedBlobRemovedOnDelete ==
    [][\A p \in Procs :
          /\ (/\ DeleteSkinWith(p, FALSE)
              /\ \E u \in db : u.SkinHash = req[p].oldSkinHash)
             => /\ req[p].oldSkinHash.String \in skins
                /\ req[p].oldSkinHash.String \notin skins'
                /\ db' = db
          /\ (/\ DeleteCapeWith(p, FALSE)
              /\ \E u \in db : u.CapeHash = req[p].oldCapeHash)
             => /\ req[p].oldCapeHash.String \in capes
                /\ req[p].oldCapeHash.String \notin capes'
                /\ db' = db]_vars

\* A Delete-account request has returned, and a remaining account names a
\* skin blob that the store no longer has.
C17_Witness ==
    /\ resp.op = "delete" /\ resp.status = StatusSeeOther
    /\ resp.oldSkinHash.Valid
    /\ \E u \in db : /\ u.SkinHash = resp.oldSkinHash
                     /\ u.SkinHash.String \notin skins

\* Whether the texture input reaches SetSkin / SetCape: an upload, or a
\* download, that validates.
Validated(i) ==
    \/ i.file /= NoFile /\ ValidateTexture(i.file)
    \/ i.file = NoFile /\ i.url /= "" /\ ~i.fetch.err /\ ValidateTexture(i.fetch.body)

\* C18: when storing a validated skin or cape fails during an Update, from an
\* upload or from a URL, the request ends with an error outcome, and no
\* account record is written.
C18_StoreFailureReported ==
    [][\A p \in Procs, i \in TextureInputs :
          (/\ i.storeErr /\ Validated(i)
           /\ \/ UpdateSkinWith(p, i.file, i.url, i.fetch, i.storeErr)
              \/ UpdateCapeWith(p, i.file, i.url, i.fetch, i.storeErr))
          => /\ req'[p] = IdleReq
             /\ resp'.op = "update"
             /\ resp'.status = StatusError
             /\ db' = db]_vars

\* C19: in any interleaving, the save of an Update leaves the session token,
\* the username and the uuid of the account's row as they are in the table
\* at the time of the save.
C19_UpdateKeepsSessionToken ==
    [][\A p \in Procs :
          UpdateSave(p) =>
              \A u \in db :
                  u.UUID = req[p].user.UUID =>
                      \E v \in db' : /\ v.UUID = u.UUID
                                     /\ v.Username = u.Username
                                     /\ v.BrowserToken = u.BrowserToken]_vars

\* C20: in any interleaving, the save of an Update, Logout or Login whose
\* account's row has been deleted since the request read it creates no row.
C20_DeletionIsFinal ==
    [][\A p \in Procs :
          (/\ UpdateSave(p) \/ LogoutSave(p) \/ LoginSave(p)
           /\ \A u \in db : u.UUID /= req[p].user.UUID)
          => \A u \in db' : u.UUID /= req[p].user.UUID]_vars

====
